---- MODULE Spec2Model ----
(***************************************************************************)
(* Model of Chatbot/services/gemini_prompt.py: the orchestration of the    *)
(* graph store and the LLM in free_chat_either and fitness_score, with     *)
(* the helpers find_place_and_user_in_graph, format_results_for_llm and    *)
(* run_and_format_cypher.                                                  *)
(*                                                                         *)
(* Texts are sequences of string tokens.  The LLM's replies are sequences  *)
(* of one-character strings so that str.strip() and the comparison with    *)
(* the sentinel are computed, not assumed.  A Python value that may be     *)
(* None is a record [isNone, text].  Record constructors list their fields  *)
(* in the order TLC normalises them to.                                    *)
(***************************************************************************)
EXTENDS Integers, Sequences, FiniteSets, TLC

\* ------------------------------------------------------------------ bounds
MaxMessages == 1
MaxRows == 2

\* ------------------------------------------------------- the graph's places
Places == {"p1", "p2"}
Styles == {"hip"}
UnknownPlace == "p9"

\* Python None for an optional text, and a present text.
None == [isNone |-> TRUE, text |-> <<>>]
Str(t) == [isNone |-> FALSE, text |-> t]

\* Python None passed as place_id.
NoPlace == "<None>"

\* Cypher null.
NULL == "<null>"

\* p.category is a scalar on some Place nodes and a list on others.
PlaceCategory(p) ==
    IF p = "p1" THEN [isList |-> FALSE, scalar |-> "cafe", list |-> <<>>]
    ELSE [isList |-> TRUE, scalar |-> "", list |-> <<"park", "cafe">>]

PlaceName(p) == IF p = "p1" THEN "Cafe Onion" ELSE "Seoul Forest"

PlaceDescriptionText(p) == IF p = "p1" THEN "bakery cafe" ELSE "city park"

\* ------------------------------------------------------------ text helpers
Range(s) == {s[i] : i \in DOMAIN s}

\* All orderings of a finite set: the order of collect(DISTINCT ...) is the
\* store's choice.
Orderings(S) ==
    {s \in [1..Cardinality(S) -> S] : Range(s) = S}

\* sep.join(items) over token sequences.
RECURSIVE Join(_, _)
Join(items, sep) ==
    IF Len(items) = 0 THEN <<>>
    ELSE IF Len(items) = 1 THEN <<items[1]>>
    ELSE <<items[1], sep>> \o Join(Tail(items), sep)

\* sep.join(blocks) where every block is itself a sequence of tokens.
RECURSIVE JoinBlocks(_, _)
JoinBlocks(blocks, sep) ==
    IF Len(blocks) = 0 THEN <<>>
    ELSE IF Len(blocks) = 1 THEN blocks[1]
    ELSE blocks[1] \o sep \o JoinBlocks(Tail(blocks), sep)

Whitespace == {" ", "\n", "\t"}

RECURSIVE LStrip(_)
LStrip(s) ==
    IF Len(s) = 0 THEN s
    ELSE IF s[1] \in Whitespace THEN LStrip(Tail(s))
    ELSE s

RECURSIVE RStrip(_)
RStrip(s) ==
    IF Len(s) = 0 THEN s
    ELSE IF s[Len(s)] \in Whitespace THEN RStrip(SubSeq(s, 1, Len(s) - 1))
    ELSE s

\* str.strip()
Strip(s) == RStrip(LStrip(s))

\* ------------------------------------------------- the store's read queries
\* Lines 12-13: MATCH (u)-[:HAS_STYLE]->(s) OPTIONAL MATCH (u)-[:LIKED]->(p).
\* One row per (style, liked place); p is null when nothing is liked; no row
\* at all when the user has no style.
StyleMatchRows(g) ==
    {[p |-> p, s |-> s] :
        s \in g.styles, p \in (IF g.liked = {} THEN {NULL} ELSE g.liked)}

\* Line 17: CASE WHEN type(cat_list) = "LIST" THEN cat_list ELSE [cat_list].
Normalized(cat_list) ==
    IF cat_list.isList THEN cat_list.list ELSE <<cat_list.scalar>>

\* Lines 14-19: the aggregation without a grouping key yields one row also
\* for no input; collect() skips nulls; UNWIND of an empty list yields no row;
\* the final RETURN groups by styles, so no input row means no result row.
StyleQueryResult(g) ==
    LET rows == StyleMatchRows(g)
        styles == {r.s : r \in rows}
        raw_categories == {PlaceCategory(r.p) : r \in {x \in rows : x.p # NULL}}
        cats == UNION {Range(Normalized(c)) : c \in raw_categories}
    IN  IF cats = {} THEN {}
        ELSE {[styles |-> so, liked_categories |-> co] :
                so \in Orderings(styles), co \in Orderings(cats)}

\* Line 24.
UserProfile(styles, liked_cats) ==
    <<"The user prefers styles such as ">> \o Join(styles, ", ")
      \o <<" and has liked places in the following categories: ">>
      \o Join(liked_cats, ", ") \o <<".">>

\* Line 28: OPTIONAL MATCH (u)-[:LIKED]->(p1)-[:SIMILAR_TO]-(p2 {id: $place_id}).
\* A null or unknown $place_id matches no node, and the row keeps p1 = p2 = null.
SimilarMatchRows(g, sim, place_id) ==
    LET m == {p1 \in g.liked : place_id \in Places /\ {p1, place_id} \in sim}
    IN  IF m = {} THEN {[p1 |-> NULL, p2 |-> NULL]}
        ELSE {[p1 |-> p1, p2 |-> place_id] : p1 \in m}

\* Line 29: OPTIONAL MATCH (u)-[r:LIKED]->(p2:Place {id: $place_id}), where p2
\* is the variable the previous clause bound: on a row whose p2 is null the
\* pattern matches nothing and r is null.
LikedRel(g, row, place_id) ==
    IF row.p2 # NULL /\ row.p2 = place_id /\ row.p2 \in g.liked
    THEN "LIKED" ELSE NULL

\* Lines 27-29: the rows the aggregation of line 30 reads.
RelMatchRows(g, sim, place_id) ==
    {[r |-> LikedRel(g, x, place_id), p1 |-> x.p1] :
        x \in SimilarMatchRows(g, sim, place_id)}

\* Lines 26-31: the aggregated row; the User node exists after the upsert.
RelQueryResult(g, sim, place_id) ==
    LET rows == RelMatchRows(g, sim, place_id)
        names == {PlaceName(x.p1) : x \in {y \in rows : y.p1 # NULL}}
    IN  {[directly_liked |-> \E x \in rows : x.r # NULL,
          similar_liked |-> \E x \in rows : x.p1 # NULL,
          similar_places |-> o] : o \in Orderings(names)}

DirectSummary == <<"The user has directly liked this place before.">>
NoConnectionSummary ==
    <<"The user has no direct or similar connections to this place.">>
SimilarSummary(names) ==
    <<"The user has liked similar places such as: ">> \o Join(names, ", ") \o <<".">>

\* Lines 33-39.
RelationshipSummary(rel_result) ==
    IF rel_result.directly_liked THEN DirectSummary
    ELSE IF rel_result.similar_liked THEN SimilarSummary(rel_result.similar_places)
    ELSE NoConnectionSummary

\* Lines 42-45: no row for an id that is no Place of the graph.
PlaceQueryResult(place_id) ==
    IF place_id \in Places
    THEN {[name |-> PlaceName(place_id), category |-> PlaceCategory(place_id),
           description |-> PlaceDescriptionText(place_id)]}
    ELSE {}

\* str() of a category value inside the f-string of line 46.
CategoryText(c) ==
    IF c.isList THEN <<"[">> \o Join(c.list, ", ") \o <<"]">> ELSE <<c.scalar>>

\* Line 46.
PlaceDescription(place_result) ==
    <<place_result.name, " (">> \o CategoryText(place_result.category)
      \o <<"): ", place_result.description>>

\* Line 49: the tuple find_place_and_user_in_graph returns.
ReturnTuple(c) ==
    <<c.user_profile, c.relationship_summary, c.place_description>>

\* A binding in the order of the returned tuple.
BindInReturnOrder(t) ==
    [user_profile |-> t[1], relationship_summary |-> t[2],
     place_description |-> t[3]]

\* Lines 133 and 220: the names the call sites bind the tuple to.
BindCallSite(t) ==
    [user_profile |-> t[1], relationship_summary |-> t[3],
     place_description |-> t[2]]

\* ---------------------------------------------------- format_results_for_llm
\* A text of lines; every line is a record.
HeaderLine(n) == [n |-> n, kind |-> "header", key |-> "", val |-> <<"", "">>]
PairLine(k, v) == [n |-> 0, kind |-> "pair", key |-> k, val |-> v]
BlankLine == [n |-> 0, kind |-> "blank", key |-> "", val |-> <<"", "">>]
TextLine(t) == [n |-> 0, kind |-> "text", key |-> "", val |-> <<"str", t>>]

NoDataMessage == <<TextLine("No data was returned from the graph.")>>

\* Lines 59-63: json.dumps(value, indent=2) for a dict, str(value) otherwise.
ValueText(value) ==
    IF value.isDict THEN <<"json", value.v>> ELSE <<"str", value.v>>

\* A block numbered with enumerate()'s own index.
RecordBlockZeroBased(i, record) ==
    <<HeaderLine(i)>>
      \o [j \in 1..Len(record) |-> PairLine(record[j].key, ValueText(record[j].value))]

\* Lines 57-64: one record's block.
RecordBlock(i, record) ==
    <<HeaderLine(i + 1)>>
      \o [j \in 1..Len(record) |-> PairLine(record[j].key, ValueText(record[j].value))]

\* Lines 51-66; enumerate() counts from 0.
format_results_for_llm(records) ==
    IF Len(records) = 0 THEN NoDataMessage
    ELSE JoinBlocks([i \in 1..Len(records) |-> RecordBlock(i - 1, records[i])],
                    <<BlankLine>>)

\* Line 75.
FailedText(msg) == <<TextLine("Failed to run query: "), TextLine(msg)>>

\* ------------------------------------------------------------ the LLM's text
NO_CYPHER == <<"N", "O", "_", "C", "Y", "P", "H", "E", "R">>

\* A comparison that ignores case.
IsSentinelIgnoringCase(response) ==
    response \in {NO_CYPHER, <<"n", "o", "_", "c", "y", "p", "h", "e", "r">>}

\* A comparison with the quoted literal of the prompt.
IsSentinelQuoted(response) ==
    response = <<"'">> \o NO_CYPHER \o <<"'">>

\* Line 139.
IsSentinel(cypher_response) == cypher_response = NO_CYPHER

\* What the model may answer to the Cypher prompt: the sentinel, the sentinel
\* with surrounding whitespace, near-matches, and a query.
RawCypherResponses ==
    { NO_CYPHER,
      <<" ">> \o NO_CYPHER \o <<"\n">>,
      <<"n", "o", "_", "c", "y", "p", "h", "e", "r">>,
      <<"'">> \o NO_CYPHER \o <<"'">>,
      NO_CYPHER \o <<" ", "x">>,
      <<"M", "A", "T", "C", "H">> }

RawReplies == { <<"o", "k">>, <<" ", "o", "k", "\n">> }

\* The JSON documents the model may answer to the fitness prompt.
ScoreValues ==
    { [v |-> n, isInt |-> TRUE] : n \in {-1, 0, 100, 101} }
      \cup { [v |-> 0, isInt |-> FALSE] }
NoScore == [v |-> -1, isInt |-> FALSE]
FitnessResponses ==
    { [wellFormed |-> w, hasScore |-> hs, score |-> sc,
       hasExplanation |-> he, explanation |-> ex] :
        w \in BOOLEAN, hs \in BOOLEAN, sc \in ScoreValues \cup {NoScore},
        he \in BOOLEAN, ex \in {"", "fits"} }
NoJson ==
    [wellFormed |-> FALSE, hasScore |-> FALSE, score |-> NoScore,
     hasExplanation |-> FALSE, explanation |-> ""]
\* One text per document: an absent field has no value, and text that is not
\* JSON has no fields.
FitnessTexts ==
    { j \in FitnessResponses :
        /\ (j.hasScore <=> j.score # NoScore)
        /\ (~j.hasExplanation => j.explanation = "")
        /\ (~j.wellFormed => j = NoJson) }

\* Line 254: JsonOutputParser.parse decodes the JSON text into a dict and
\* raises on text that is not JSON; it validates no field.
ParseRaises(content) == ~content.wellFormed
ParseResult(content) ==
    [hasScore |-> content.hasScore, score |-> content.score,
     hasExplanation |-> content.hasExplanation, explanation |-> content.explanation]
NoDict ==
    [hasScore |-> FALSE, score |-> NoScore, hasExplanation |-> FALSE, explanation |-> ""]

\* ------------------------------------------------------------ call arguments
Roles == {"User", "Assistant"}
MessageLists ==
    UNION { [1..n -> [content : {"hi"}, role : Roles]] : n \in 0..MaxMessages }

\* Lines 84-86.
ChatHistory(messages) ==
    Join([i \in 1..Len(messages) |-> <<messages[i].role, ": ", messages[i].content>>],
         <<"\n">>)

\* Line 120.
PlaceLine(place_id) ==
    IF place_id # NoPlace
    THEN <<"- The user is asking about place ID: ", place_id>> ELSE <<>>

PlaceIds == Places \cup {UnknownPlace, NoPlace}

\* Rows result.data() may hold for a generated query.
SampleRows ==
    { <<[key |-> "name", value |-> [v |-> "Cafe Onion", isDict |-> FALSE]]>>,
      <<[key |-> "p", value |-> [v |-> "node", isDict |-> TRUE]],
        [key |-> "n", value |-> [v |-> "3", isDict |-> FALSE]]>> }
RecordLists == UNION { [1..n -> SampleRows] : n \in 0..MaxRows }
ErrorMessages == {"syntax error"}

\* ------------------------------------------------------------------- state
VARIABLES
    graph,          \* the store: the user's HAS_STYLE and LIKED edges
    similar,        \* the store: SIMILAR_TO edges, as unordered pairs
    op,             \* the running top-level operation
    pc,             \* its position
    args,           \* its arguments
    chat_history,   \* line 84
    cypher_raw,     \* the content the LLM returned at line 132
    cypher_response,\* line 132, stripped
    ctx,            \* locals of find_place_and_user_in_graph
    bound,          \* the names of lines 133/220
    result_text,    \* line 172
    prompts,        \* the prompts sent to the LLM by this call, in order
    llm_content,    \* the response of line 253
    outcome,        \* how the call ended
    openSessions,   \* store sessions open now
    log,            \* the call's store and LLM events, in order
    fmt             \* an input and the output of format_results_for_llm

vars == <<graph, similar, op, pc, args, chat_history, cypher_raw, cypher_response, ctx,
          bound, result_text, prompts, llm_content, outcome, openSessions, log, fmt>>

NoArgs == [styles |-> {}, place_id |-> NoPlace, messages |-> <<>>, liked_place_ids |-> {}]
NoCtx == [user_profile |-> None, relationship_summary |-> None, place_description |-> None]
NoBound == [user_profile |-> None, relationship_summary |-> None, place_description |-> None]
NoOutcome == [kind |-> "none", err |-> "", reply |-> <<>>, parsed |-> NoDict]
Raised(e) == [kind |-> "raise", err |-> e, reply |-> <<>>, parsed |-> NoDict]
Reply(r) == [kind |-> "return", err |-> "", reply |-> r, parsed |-> NoDict]
Parsed(j) == [kind |-> "return", err |-> "", reply |-> <<>>, parsed |-> j]
NoFmt == [records |-> <<>>, done |-> FALSE, out |-> <<>>]

SimilarGraphs == { {}, {{"p1", "p2"}} }

Init ==
    /\ graph = [styles |-> {}, liked |-> {}]
    /\ similar \in SimilarGraphs
    /\ op = "none"
    /\ pc = "idle"
    /\ args = NoArgs
    /\ chat_history = <<>>
    /\ cypher_raw = <<>>
    /\ cypher_response = <<>>
    /\ ctx = NoCtx
    /\ bound = NoBound
    /\ result_text = <<>>
    /\ prompts = <<>>
    /\ llm_content = NoJson
    /\ outcome = NoOutcome
    /\ openSessions = 0
    /\ log = <<>>
    /\ fmt = NoFmt

\* ----------------------------------------------------------------- prompts
\* Lines 97-129: the Cypher Generator's prompt.
CypherPrompt(a, history) ==
    [styles |-> a.styles, user_profile |-> None, relationship_summary |-> None,
     place_description |-> None, chat_history |-> history, result_text |-> <<>>,
     liked_place_ids |-> a.liked_place_ids, template |-> "cypher",
     place_line |-> PlaceLine(a.place_id)]

\* Lines 140-168, 174-208 and 222-251: the slots are filled by keyword with
\* the call site's names.
ContextPrompt(template, b, text, history) ==
    [styles |-> {}, user_profile |-> b.user_profile,
     relationship_summary |-> b.relationship_summary,
     place_description |-> b.place_description, chat_history |-> history,
     result_text |-> text, liked_place_ids |-> {}, template |-> template,
     place_line |-> <<>>]

\* update_user_node: create-or-update of the user's styles and liked places.
Upserted(g, a) ==
    [styles |-> g.styles \cup a.styles, liked |-> g.liked \cup a.liked_place_ids]

\* -------------------------------------------------------------- operations
Ends(o) ==
    /\ pc' = "done"
    /\ outcome' = o

\* An exception raised after the query `event`, inside the block of
\* `with driver.session()`: the block's exit releases the session.
RaisesInSession(e, event) ==
    /\ Ends(Raised(e))
    /\ openSessions' = openSessions - 1
    /\ log' = log \o <<event, "session_close">>

\* A call that goes to its LLM or its context fetch without the upsert.
FirstStepSkipsUpsert(name) ==
    IF name = "free_chat_either" THEN "cypher_llm" ELSE "fetch"

\* Lines 81-82 and 214-215: what a call does first.
FirstStep(name) == "upsert"

Call(name, a) ==
    /\ pc = "idle"
    /\ op' = name
    /\ pc' = FirstStep(name)
    /\ args' = a
    /\ UNCHANGED <<graph, similar, chat_history, cypher_raw, cypher_response, ctx, bound,
                   result_text, prompts, llm_content, outcome, openSessions, log, fmt>>

\* Line 80: a request arrives.
CallFreeChat ==
    \E l \in SUBSET Places, st \in SUBSET Styles, pl \in PlaceIds, m \in MessageLists :
        Call("free_chat_either",
             [styles |-> st, place_id |-> pl, messages |-> m, liked_place_ids |-> l])

\* Line 213.
CallFitness ==
    \E l \in SUBSET Places, st \in SUBSET Styles, pl \in PlaceIds :
        Call("fitness_score",
             [styles |-> st, place_id |-> pl, messages |-> <<>>, liked_place_ids |-> l])

AfterUpsert == IF op = "free_chat_either" THEN "cypher_llm" ELSE "fetch"

\* Lines 81-82 and 214-215: connect_driver and update_user_node.
Upsert ==
    /\ pc = "upsert"
    /\ \/ /\ graph' = Upserted(graph, args)
          /\ log' = Append(log, "upsert")
          /\ pc' = AfterUpsert
          /\ UNCHANGED outcome
       \/ /\ Ends(Raised("StoreConnectionError"))
          /\ UNCHANGED <<graph, log>>
    /\ UNCHANGED <<similar, op, args, chat_history, cypher_raw, cypher_response, ctx, bound,
                   result_text, prompts, llm_content, openSessions, fmt>>

\* Lines 84-132: the chat history, the Cypher prompt and the first LLM call.
CypherLLM ==
    /\ pc = "cypher_llm"
    /\ chat_history' = ChatHistory(args.messages)
    /\ prompts' = Append(prompts, CypherPrompt(args, chat_history'))
    /\ log' = Append(log, "llm")
    /\ \/ \E raw \in RawCypherResponses :
            /\ cypher_raw' = raw
            /\ cypher_response' = Strip(raw)
            /\ pc' = "fetch"
            /\ UNCHANGED outcome
       \/ /\ Ends(Raised("LLMInvocationError"))
          /\ UNCHANGED <<cypher_raw, cypher_response>>
    /\ UNCHANGED <<graph, similar, op, args, ctx, bound, result_text, llm_content,
                   openSessions, fmt>>

\* Line 10.
FetchOpen ==
    /\ pc = "fetch"
    /\ openSessions' = openSessions + 1
    /\ log' = Append(log, "session_open")
    /\ pc' = "style_query"
    /\ UNCHANGED <<graph, similar, op, args, chat_history, cypher_raw, cypher_response, ctx,
                   bound, result_text, prompts, llm_content, outcome, fmt>>

\* Lines 11-24: .single() is None when the query has no row, and subscripting
\* None raises.
StyleQuery ==
    /\ pc = "style_query"
    /\ IF StyleQueryResult(graph) = {}
       THEN /\ RaisesInSession("TypeError", "read_style")
            /\ UNCHANGED ctx
       ELSE \E style_result \in StyleQueryResult(graph) :
            /\ ctx' = [ctx EXCEPT !.user_profile =
                          Str(UserProfile(style_result.styles,
                                          style_result.liked_categories))]
            /\ log' = Append(log, "read_style")
            /\ pc' = "rel_query"
            /\ UNCHANGED <<outcome, openSessions>>
    /\ UNCHANGED <<graph, similar, op, args, chat_history, cypher_raw, cypher_response, bound,
                   result_text, prompts, llm_content, fmt>>

\* Lines 26-41 and 47.
RelQuery ==
    /\ pc = "rel_query"
    /\ \E rel_result \in RelQueryResult(graph, similar, args.place_id) :
            ctx' = [ctx EXCEPT !.relationship_summary =
                       Str(RelationshipSummary(rel_result))]
    /\ log' = Append(log, "read_rel")
    /\ pc' = IF args.place_id # NoPlace THEN "place_query" ELSE "fetch_return"
    /\ UNCHANGED <<graph, similar, op, args, chat_history, cypher_raw, cypher_response, bound,
                   result_text, prompts, llm_content, outcome, openSessions, fmt>>

\* Lines 42-46.
PlaceQuery ==
    /\ pc = "place_query"
    /\ IF PlaceQueryResult(args.place_id) = {}
       THEN /\ RaisesInSession("TypeError", "read_place")
            /\ UNCHANGED ctx
       ELSE \E place_result \in PlaceQueryResult(args.place_id) :
            /\ ctx' = [ctx EXCEPT !.place_description =
                          Str(PlaceDescription(place_result))]
            /\ log' = Append(log, "read_place")
            /\ pc' = "fetch_return"
            /\ UNCHANGED <<outcome, openSessions>>
    /\ UNCHANGED <<graph, similar, op, args, chat_history, cypher_raw, cypher_response, bound,
                   result_text, prompts, llm_content, fmt>>

AfterFetch == IF op = "free_chat_either" THEN "branch" ELSE "fitness_llm"

\* A return that leaves the session open.
FetchReturnLeaks ==
    /\ pc = "fetch_return"
    /\ bound' = BindCallSite(ReturnTuple(ctx))
    /\ pc' = AfterFetch
    /\ UNCHANGED <<graph, similar, op, args, chat_history, cypher_raw, cypher_response, ctx,
                   result_text, prompts, llm_content, outcome, openSessions, log, fmt>>

\* Line 49, the end of the `with` block, and the binding of lines 133/220.
FetchReturn ==
    /\ pc = "fetch_return"
    /\ bound' = BindCallSite(ReturnTuple(ctx))
    /\ openSessions' = openSessions - 1
    /\ log' = Append(log, "session_close")
    /\ pc' = AfterFetch
    /\ UNCHANGED <<graph, similar, op, args, chat_history, cypher_raw, cypher_response, ctx,
                   result_text, prompts, llm_content, outcome, fmt>>

\* Line 139.
Branch ==
    /\ pc = "branch"
    /\ pc' = IF IsSentinel(cypher_response) THEN "general_llm" ELSE "run_cypher"
    /\ UNCHANGED <<graph, similar, op, args, chat_history, cypher_raw, cypher_response, ctx,
                   bound, result_text, prompts, llm_content, outcome, openSessions,
                   log, fmt>>

\* An LLM call whose stripped content is the reply (lines 169-170, 209-210).
ReplyFrom(prompt) ==
    /\ prompts' = Append(prompts, prompt)
    /\ log' = Append(log, "llm")
    /\ \/ \E raw \in RawReplies : Ends(Reply(Strip(raw)))
       \/ Ends(Raised("LLMInvocationError"))

\* Lines 140-170: the no-query path.
GeneralLLM ==
    /\ pc = "general_llm"
    /\ ReplyFrom(ContextPrompt("general", bound, <<>>, chat_history))
    /\ UNCHANGED <<graph, similar, op, args, chat_history, cypher_raw, cypher_response, ctx,
                   bound, result_text, llm_content, openSessions, fmt>>

\* Line 70.
RunOpen ==
    /\ pc = "run_cypher"
    /\ openSessions' = openSessions + 1
    /\ log' = Append(log, "session_open")
    /\ pc' = "run_query"
    /\ UNCHANGED <<graph, similar, op, args, chat_history, cypher_raw, cypher_response, ctx,
                   bound, result_text, prompts, llm_content, outcome, fmt>>

\* An executor without the except clause: the store's exception propagates.
RunQueryPropagates ==
    /\ pc = "run_query"
    /\ \/ /\ \E records \in RecordLists :
                result_text' = format_results_for_llm(records)
          /\ log' = log \o <<"run_generated", "session_close">>
          /\ pc' = "final_llm"
          /\ UNCHANGED outcome
       \/ /\ Ends(Raised("CypherSyntaxError"))
          /\ log' = log \o <<"run_generated", "run_raised", "session_close">>
          /\ UNCHANGED result_text
    /\ openSessions' = openSessions - 1
    /\ UNCHANGED <<graph, similar, op, args, chat_history, cypher_raw, cypher_response, ctx,
                   bound, prompts, llm_content, fmt>>

\* Lines 71-77 and 172: the generated text runs; an exception becomes text.
RunQuery ==
    /\ pc = "run_query"
    /\ \/ /\ \E records \in RecordLists :
                result_text' = format_results_for_llm(records)
          /\ log' = log \o <<"run_generated", "session_close">>
       \/ /\ \E msg \in ErrorMessages : result_text' = FailedText(msg)
          /\ log' = log \o <<"run_generated", "run_raised", "session_close">>
    /\ openSessions' = openSessions - 1
    /\ pc' = "final_llm"
    /\ UNCHANGED <<graph, similar, op, args, chat_history, cypher_raw, cypher_response, ctx,
                   bound, prompts, llm_content, outcome, fmt>>

\* Lines 174-210: the query path's answer.
FinalLLM ==
    /\ pc = "final_llm"
    /\ ReplyFrom(ContextPrompt("answer", bound, result_text, chat_history))
    /\ UNCHANGED <<graph, similar, op, args, chat_history, cypher_raw, cypher_response, ctx,
                   bound, result_text, llm_content, openSessions, fmt>>

\* Lines 222-253.
FitnessLLM ==
    /\ pc = "fitness_llm"
    /\ prompts' = Append(prompts, ContextPrompt("fitness", bound, <<>>, <<>>))
    /\ log' = Append(log, "llm")
    /\ \/ \E content \in FitnessTexts :
            /\ llm_content' = content
            /\ pc' = "parse"
            /\ UNCHANGED outcome
       \/ /\ Ends(Raised("LLMInvocationError"))
          /\ UNCHANGED llm_content
    /\ UNCHANGED <<graph, similar, op, args, chat_history, cypher_raw, cypher_response, ctx,
                   bound, result_text, openSessions, fmt>>

\* Lines 254-255.
Parse ==
    /\ pc = "parse"
    /\ IF ParseRaises(llm_content)
       THEN Ends(Raised("OutputParserException"))
       ELSE Ends(Parsed(ParseResult(llm_content)))
    /\ UNCHANGED <<graph, similar, op, args, chat_history, cypher_raw, cypher_response, ctx,
                   bound, result_text, prompts, llm_content, openSessions, log, fmt>>

\* The call is over: its frame is gone, the store and the driver's sessions stay.
Finish ==
    /\ pc = "done"
    /\ op' = "none"
    /\ pc' = "idle"
    /\ args' = NoArgs
    /\ chat_history' = <<>>
    /\ cypher_raw' = <<>>
    /\ cypher_response' = <<>>
    /\ ctx' = NoCtx
    /\ bound' = NoBound
    /\ result_text' = <<>>
    /\ prompts' = <<>>
    /\ llm_content' = NoJson
    /\ outcome' = NoOutcome
    /\ log' = <<>>
    /\ UNCHANGED <<graph, similar, openSessions, fmt>>

Next ==
    \/ CallFreeChat
    \/ CallFitness
    \/ Upsert
    \/ CypherLLM
    \/ FetchOpen
    \/ StyleQuery
    \/ RelQuery
    \/ PlaceQuery
    \/ FetchReturn
    \/ Branch
    \/ GeneralLLM
    \/ RunOpen
    \/ RunQuery
    \/ FinalLLM
    \/ FitnessLLM
    \/ Parse
    \/ Finish

Spec == Init /\ [][Next]_vars

\* ------------------------------------------- format_results_for_llm, alone
MaxFmtRows == 3
FormatRows == SampleRows \cup { <<>>, <<[key |-> "c", value |-> [v |-> "", isDict |-> FALSE]]>> }
FormatInputs == UNION { [1..n -> FormatRows] : n \in 0..MaxFmtRows }

InitFormat ==
    /\ graph = [styles |-> {}, liked |-> {}]
    /\ similar = {}
    /\ op = "none"
    /\ pc = "idle"
    /\ args = NoArgs
    /\ chat_history = <<>>
    /\ cypher_raw = <<>>
    /\ cypher_response = <<>>
    /\ ctx = NoCtx
    /\ bound = NoBound
    /\ result_text = <<>>
    /\ prompts = <<>>
    /\ llm_content = NoJson
    /\ outcome = NoOutcome
    /\ openSessions = 0
    /\ log = <<>>
    /\ \E r \in FormatInputs : fmt = [records |-> r, done |-> FALSE, out |-> <<>>]

\* Lines 51-66: one call of format_results_for_llm.
Format ==
    /\ ~fmt.done
    /\ fmt' = [fmt EXCEPT !.done = TRUE, !.out = format_results_for_llm(fmt.records)]
    /\ UNCHANGED <<graph, similar, op, pc, args, chat_history, cypher_raw,
                   cypher_response, ctx, bound, result_text, prompts, llm_content,
                   outcome, openSessions, log>>

SpecFormat == InitFormat /\ [][Format]_vars

\* ================================================================== claims
CountOf(seq, e) == Cardinality({i \in DOMAIN seq : seq[i] = e})
Reads == {"read_style", "read_rel", "read_place", "run_generated"}
SessionsOpened == CountOf(log, "session_open")
InFreeChat == op = "free_chat_either"
InFitness == op = "fitness_score"
Returned == pc = "done" /\ outcome.kind = "return"
RanGenerated == "run_generated" \in Range(log)
ContextTemplates == {"general", "answer", "fitness"}

\* raw is the nine characters NO_CYPHER between two runs of whitespace.
TrimmedIsNoCypher(raw) ==
    \E i \in 1..(Len(raw) + 1), j \in 0..Len(raw) :
        /\ j - i + 1 = 9
        /\ SubSeq(raw, i, j) = <<"N", "O", "_", "C", "Y", "P", "H", "E", "R">>
        /\ \A k \in 1..(i - 1) : raw[k] \in {" ", "\n", "\t"}
        /\ \A k \in (j + 1)..Len(raw) : raw[k] \in {" ", "\n", "\t"}

\* C1: in free_chat_either the generated text is run against the store if and
\* only if the LLM's response, trimmed of whitespace, is not exactly
\* "NO_CYPHER": the exact match takes the no-query path and never runs the
\* text, and every other response that reaches line 139 goes to the executor.
C1_SentinelExactMatch ==
    /\ pc = "general_llm" => TrimmedIsNoCypher(cypher_raw)
    /\ pc \in {"run_cypher", "run_query", "final_llm"} => ~TrimmedIsNoCypher(cypher_raw)
    /\ RanGenerated => ~TrimmedIsNoCypher(cypher_raw)
    /\ (InFreeChat /\ Returned) => (RanGenerated <=> ~TrimmedIsNoCypher(cypher_raw))
    /\ (InFreeChat /\ Returned /\ TrimmedIsNoCypher(cypher_raw)) =>
            prompts[Len(prompts)].template = "general"

\* A quoted sentinel went to the executor and the call returned.
C1_Witness ==
    /\ InFreeChat /\ Returned /\ RanGenerated
    /\ cypher_raw = <<"'", "N", "O", "_", "C", "Y", "P", "H", "E", "R", "'">>

\* The tier of a (user, place) pair as the specification of the fetcher
\* states it.
DirectlyLiked(g, place_id) == place_id \in g.liked
LikedSimilar(g, sim, place_id) == {p \in g.liked : {p, place_id} \in sim /\ p # place_id}
ExpectedSummaries(g, sim, place_id) ==
    IF DirectlyLiked(g, place_id) THEN {DirectSummary}
    ELSE IF LikedSimilar(g, sim, place_id) # {}
    THEN {SimilarSummary(o) :
            o \in Orderings({PlaceName(p) : p \in LikedSimilar(g, sim, place_id)})}
    ELSE {NoConnectionSummary}

\* C2: once the relationship query of find_place_and_user_in_graph has run,
\* the summary is the one of the pair's tier: directly liked when the user
\* liked the place (also when a similar place is liked too), similar liked when
\* there is no direct like and a liked similar place, no connection otherwise.
C2_RelationshipTiering ==
    "read_rel" \in Range(log) =>
        /\ ~ctx.relationship_summary.isNone
        /\ ctx.relationship_summary.text \in ExpectedSummaries(graph, similar, args.place_id)

\* C3: when running the generated query raises, run_and_format_cypher returns
\* "Failed to run query: " followed by the message instead of raising, and
\* free_chat_either goes on to send the answer prompt holding that text to the
\* LLM and returns the LLM's reply.
C3_QueryErrorBecomesText ==
    "run_raised" \in Range(log) =>
        /\ pc \in {"final_llm", "done"}
        /\ \E msg \in ErrorMessages :
              result_text = <<TextLine("Failed to run query: "), TextLine(msg)>>
        /\ pc = "done" =>
              /\ prompts[Len(prompts)].template = "answer"
              /\ prompts[Len(prompts)].result_text = result_text
              /\ log[Len(log)] = "llm"
              /\ outcome.kind = "raise" => outcome.err = "LLMInvocationError"
              /\ outcome.kind = "return" => outcome.reply = <<"o", "k">>

\* The query raised and the call returned a reply.
C3_Witness ==
    /\ "run_raised" \in Range(log)
    /\ Returned
    /\ outcome.reply = <<"o", "k">>

\* C4: for a user with no style or no liked place, the style query of
\* find_place_and_user_in_graph does not fail and the profile sentence is
\* built.
C4_ProfileForEmptyUser ==
    ("read_style" \in Range(log) /\ (graph.styles = {} \/ graph.liked = {})) =>
        /\ ~ctx.user_profile.isNone
        /\ outcome.kind # "raise"

\* A parsed value that fits the FitnessScore schema.
ValidFitness(d) ==
    /\ d.hasScore /\ d.score.isInt /\ d.score.v \in 0..100
    /\ d.hasExplanation

\* C5: fitness_score returns nothing invalid: a response whose score is out of
\* [0,100] or no integer, or that lacks a field, ends in an error, and a
\* well-formed response is returned as it is.
C5_FitnessNeverInvalid ==
    (InFitness /\ pc = "done" /\ "llm" \in Range(log)
        /\ outcome.err # "LLMInvocationError") =>
        IF llm_content.wellFormed /\ ValidFitness(ParseResult(llm_content))
        THEN outcome.kind = "return" /\ outcome.parsed = ParseResult(llm_content)
        ELSE outcome.kind = "raise"

\* The blocks of a text of lines, split at its blank lines.
RECURSIVE SplitAtBlank(_, _)
SplitAtBlank(lines, current) ==
    IF Len(lines) = 0 THEN <<current>>
    ELSE IF lines[1].kind = "blank" THEN <<current>> \o SplitAtBlank(Tail(lines), <<>>)
    ELSE SplitAtBlank(Tail(lines), Append(current, lines[1]))

\* C6: format_results_for_llm returns the fixed message for no record, and for
\* n >= 1 records n blocks separated by blank lines, the i-th headed
\* "[Record i]" and listing the i-th record's key: value pairs in order.
C6_RecordBlocks ==
    fmt.done =>
        IF Len(fmt.records) = 0
        THEN fmt.out = <<TextLine("No data was returned from the graph.")>>
        ELSE LET blocks == SplitAtBlank(fmt.out, <<>>)
             IN  /\ Len(blocks) = Len(fmt.records)
                 /\ \A i \in 1..Len(blocks) :
                       /\ Len(blocks[i]) = 1 + Len(fmt.records[i])
                       /\ blocks[i][1].kind = "header"
                       /\ blocks[i][1].n = i
                       /\ \A j \in 1..Len(fmt.records[i]) :
                             /\ blocks[i][j + 1].kind = "pair"
                             /\ blocks[i][j + 1].key = fmt.records[i][j].key
                             /\ blocks[i][j + 1].val[2] = fmt.records[i][j].value.v

\* Three records, the second one without a key, were formatted.
C6_Witness ==
    /\ fmt.done
    /\ Len(fmt.records) = 3
    /\ Len(fmt.records[2]) = 0
    /\ Len(fmt.records[3]) = 2

\* C7: in both operations the upsert is the first store or LLM event of the
\* call: no read query, no session and no LLM call comes before it.
C7_UpsertFirst ==
    log # <<>> =>
        /\ log[1] = "upsert"
        /\ CountOf(log, "upsert") = 1
        /\ args.styles \subseteq graph.styles
        /\ args.liked_place_ids \subseteq graph.liked

\* A free chat on the query path returned: an upsert, LLM calls and reads.
C7_Witness ==
    /\ InFreeChat /\ Returned /\ RanGenerated
    /\ CountOf(log, "llm") = 2
    /\ "read_rel" \in Range(log)

\* The call of scenario 1: no place, no message, the sentinel.
Scenario1 ==
    /\ InFreeChat
    /\ args.place_id = NoPlace
    /\ args.messages = <<>>
    /\ cypher_response = NO_CYPHER
    /\ "llm" \in Range(log)

\* C8 as stated: in scenario 1 a reply is returned and no query was issued
\* to the store during the call.
C8_NoStoreQuery ==
    (Scenario1 /\ Returned) => \A i \in DOMAIN log : log[i] \notin Reads

\* C8 as amended: in scenario 1 the generated text is never run; the reads of
\* the store are those of the context fetch, the style query and then the
\* relationship query, and a reply that is returned answers the general prompt.
C8_NoGeneratedQuery ==
    Scenario1 =>
        /\ ~RanGenerated
        /\ "read_place" \notin Range(log)
        /\ pc \notin {"run_cypher", "run_query", "final_llm"}
        /\ Returned =>
              /\ CountOf(log, "read_style") = 1
              /\ CountOf(log, "read_rel") = 1
              /\ prompts[Len(prompts)].template = "general"

\* Scenario 1 returned a reply.
C8_Witness ==
    /\ Scenario1 /\ Returned
    /\ outcome.reply = <<"o", "k">>
    /\ Len(prompts) = 2

\* C9 as stated: an operation that returns has opened exactly one session
\* and left none open.
C9_ExactlyOneSession ==
    Returned => (SessionsOpened = 1 /\ openSessions = 0)

\* C9 as amended: at most one session is open at a time and none is open
\* when an operation has ended, by return or by raise; fitness_score and the
\* no-query path open one session, the query path of free_chat_either two.
C9_SessionsReleased ==
    /\ openSessions \in {0, 1}
    /\ pc \in {"idle", "done"} => openSessions = 0
    /\ openSessions = CountOf(log, "session_open") - CountOf(log, "session_close")
    /\ SessionsOpened <= 2
    /\ SessionsOpened = 2 => (InFreeChat /\ cypher_response # NO_CYPHER)
    /\ Returned => SessionsOpened = (IF RanGenerated THEN 2 ELSE 1)

\* A call that opened two sessions ended by a raise.
C9_Witness ==
    /\ pc = "done"
    /\ outcome.kind = "raise"
    /\ SessionsOpened = 2
    /\ openSessions = 0

\* C10: the fetcher returns (profile, relationship summary, place
\* description) and the call sites bind (profile, place_description,
\* relationship_summary), so in every prompt of the three paths the place slot
\* holds the fetcher's relationship summary and the relationship slot its place
\* description, None when there is no place_id.
C10_SlotsSwapped ==
    \A i \in DOMAIN prompts :
        prompts[i].template \in ContextTemplates =>
            /\ prompts[i].user_profile = ctx.user_profile
            /\ prompts[i].place_description = ctx.relationship_summary
            /\ prompts[i].relationship_summary = ctx.place_description
            /\ ~prompts[i].place_description.isNone
            /\ args.place_id = NoPlace => prompts[i].relationship_summary.isNone

\* An answer prompt for a liked place: its place slot is the summary.
C10_Witness ==
    /\ Len(prompts) = 2
    /\ prompts[2].template = "answer"
    /\ args.place_id = "p2"
    /\ prompts[2].place_description.text = NoConnectionSummary
    /\ prompts[2].relationship_summary.text[1] = "Seoul Forest"

====
